---- MODULE Spec2Model ----
(***************************************************************************)
(* Model of src/app.py: the hydraulic primitives, the head-loss model, the *)
(* parallel-pipe bisection solver solve_parallel and the /api/reynolds     *)
(* request handler.                                                        *)
(*                                                                         *)
(* Numbers.  Python floats are modelled in two ways:                       *)
(*  - a head, diameter, length, velocity, Reynolds number or friction      *)
(*    factor is a decimal floating-point number [m, e] = m * 10^e with a   *)
(*    4-digit significand (1000 <= |m| <= 9999, or m = 0), every operation *)
(*    truncating its result to 4 digits and underflowing to 0 below        *)
(*    2.47e-324 as a double does.  A raised ZeroDivisionError is the value *)
(*    ZeroDivisionError, which every operation propagates;                 *)
(*  - a flow rate inside solve_parallel (QT, a, b, mid, Q1, Q2) is an      *)
(*    integer number of 1e-15 m3/s, the smallest flow constant of the      *)
(*    code, so that 1e-12 is 1000 and 1e-15 is 1; halving and scaling by   *)
(*    0.9 truncate to that grid.                                           *)
(***************************************************************************)
EXTENDS Integers, Sequences, FiniteSets, TLC

\* ------------------------------------------------------------------------
\* Python float arithmetic
\* ------------------------------------------------------------------------

Fl(m, e) == [m |-> m, e |-> e]

Zero == Fl(0, 0)

ZeroDivisionError == [exc |-> "ZeroDivisionError"]

Raised(x) == x = ZeroDivisionError

Abs(n) == IF n < 0 THEN -n ELSE n

Sgn(n) == IF n < 0 THEN -1 ELSE IF n > 0 THEN 1 ELSE 0

Max(x, y) == IF x >= y THEN x ELSE y

NumDigits(n) ==
    IF n < 10 THEN 1 ELSE IF n < 100 THEN 2 ELSE IF n < 1000 THEN 3
    ELSE IF n < 10000 THEN 4 ELSE IF n < 100000 THEN 5
    ELSE IF n < 1000000 THEN 6 ELSE IF n < 10000000 THEN 7
    ELSE IF n < 100000000 THEN 8 ELSE IF n < 1000000000 THEN 9 ELSE 10

\* The float nearest zero-wards to n * 10^e: 4 significant digits, and 0.0
\* when the value is below half the smallest positive double (2.47e-324).
FNorm(n, e) ==
    LET mag == Abs(n)
        sh  == NumDigits(mag) - 4
        mm  == IF sh >= 0 THEN mag \div (10 ^ sh) ELSE mag * (10 ^ (-sh))
        ee  == e + sh
    IN  IF n = 0 \/ ee < -327 \/ (ee = -327 /\ mm < 2470) THEN Zero
        ELSE Fl(Sgn(n) * mm, ee)

FNeg(x) == IF Raised(x) THEN ZeroDivisionError ELSE Fl(-x.m, x.e)

FAbs(x) == IF Raised(x) THEN ZeroDivisionError ELSE Fl(Abs(x.m), x.e)

FMul(x, y) ==
    IF Raised(x) \/ Raised(y) THEN ZeroDivisionError
    ELSE FNorm(x.m * y.m, x.e + y.e)

\* x / y: Python raises ZeroDivisionError when y is 0.0.
FDiv(x, y) ==
    IF Raised(x) \/ Raised(y) THEN ZeroDivisionError
    ELSE IF y.m = 0 THEN ZeroDivisionError
    ELSE FNorm(Sgn(x.m) * Sgn(y.m) * ((Abs(x.m) * 10000) \div Abs(y.m)),
               x.e - y.e - 4)

FAdd(x, y) ==
    IF Raised(x) \/ Raised(y) THEN ZeroDivisionError
    ELSE IF x.m = 0 THEN y
    ELSE IF y.m = 0 THEN x
    ELSE LET d == x.e - y.e
         IN  IF d > 4 THEN x
             ELSE IF d < -4 THEN y
             ELSE IF d >= 0 THEN FNorm(x.m * (10 ^ d) + y.m, y.e)
             ELSE FNorm(y.m * (10 ^ (-d)) + x.m, x.e)

FSub(x, y) == FAdd(x, FNeg(y))

FLt(x, y) == FSub(x, y).m < 0

FLe(x, y) == FSub(x, y).m <= 0

\* 10000 * log10(d) for d = 1 .. 10.
Log10Table == <<0, 3010, 4771, 6021, 6990, 7782, 8451, 9031, 9542, 10000>>

\* math.log10(x) for x > 0: the exponent plus the logarithm of the
\* significand, interpolated linearly between the integers 1 .. 10.
FLog10(x) ==
    LET d  == x.m \div 1000
        r  == x.m % 1000
        fr == Log10Table[d] + ((Log10Table[d + 1] - Log10Table[d]) * r) \div 1000
    IN  FNorm((x.e + 3) * 10000 + fr, -4)

\* 10 ** z, the inverse of FLog10.
FExp10(z) ==
    LET zi == IF z.e + 4 >= 0 THEN z.m * (10 ^ (z.e + 4))
              ELSE z.m \div (10 ^ (-(z.e + 4)))
        k  == zi \div 10000
        fr == zi % 10000
        d  == CHOOSE i \in 1..9 : Log10Table[i] <= fr /\ fr < Log10Table[i + 1]
        mm == d * 1000
              + ((fr - Log10Table[d]) * 1000) \div (Log10Table[d + 1] - Log10Table[d])
    IN  FNorm(mm, k - 3)

\* x ** y for x > 0.
FPow(x, y) == FExp10(FMul(y, FLog10(x)))

\* ------------------------------------------------------------------------
\* Physics / utilities (src/app.py lines 7-50)
\* ------------------------------------------------------------------------

pi == Fl(3141, -3)

RHO_WATER == Fl(9980, -1)

MU_WATER == Fl(1002, -6)

G == Fl(9810, -3)

\* Default roughness eps = 0.000045 of friction_factor_swamee_jain.
eps == Fl(4500, -8)

area(D) == FDiv(FMul(pi, FMul(D, D)), Fl(4000, -3))

velocity_from_Q(Q, D) == FDiv(Q, area(D))

reynolds_number(Q, D) ==
    FAbs(FDiv(FMul(FMul(RHO_WATER, FAbs(velocity_from_Q(Q, D))), D), MU_WATER))

\* Line 40: f = 0.25 / (log10(term) ** 2), lg being log10(term).
swamee_jain(lg) == FDiv(Fl(2500, -4), FMul(lg, lg))

\* Lines 38-39: the guard against log10 domain errors.
guard_term(term) == IF term.m <= 0 THEN Fl(1000, -15) ELSE term

friction_factor_swamee_jain(Re, D) ==
    IF Raised(Re) THEN ZeroDivisionError
    ELSE IF Re.m <= 0 THEN Fl(1000, 3)
    ELSE IF FLt(Re, Fl(2000, 0)) THEN FDiv(Fl(6400, -2), Re)
    ELSE swamee_jain(FLog10(guard_term(
             FAdd(FDiv(eps, FMul(Fl(3700, -3), D)),
                  FDiv(Fl(5740, -3), FPow(Re, Fl(9000, -4)))))))

\* Line 49: hf = f * (L / D) * (V * V / (2 * G)), ff being f.
darcy_weisbach(ff, V, D, L) ==
    FMul(FMul(ff, FDiv(L, D)), FDiv(FMul(V, V), FMul(Fl(2000, -3), G)))

head_loss(Q, D, L) ==
    IF Q.m <= 0 THEN Zero
    ELSE darcy_weisbach(friction_factor_swamee_jain(reynolds_number(Q, D), D),
                        velocity_from_Q(Q, D), D, L)

\* ------------------------------------------------------------------------
\* State
\* ------------------------------------------------------------------------

VARIABLES
    pc,         \* where the current call is: "call", "search", "loop",
                \* "done", "raised" (solve_parallel); "request", "responded"
                \* (api_reynolds)
    QT, D1, L1, D2, L2, tol, max_iter,   \* arguments of solve_parallel
    a, b, fa, fb, it,                    \* its locals
    k,          \* iterations of the for loop of the sign-change search done
    res,        \* the dict solve_parallel returned
    path,       \* history: the return statement that produced res
    hl_calls,   \* history: head_loss evaluations started by this call
    bodies,     \* history: executions of the while loop body started
    conv,       \* history: the while loop was left by its break
    req,        \* JSON body of the /api/reynolds request
    resp        \* its response

solver_vars == <<QT, D1, L1, D2, L2, tol, max_iter, a, b, fa, fb, it, k, res,
                 path, hl_calls, bodies, conv>>

vars == <<pc, solver_vars, req, resp>>

\* ------------------------------------------------------------------------
\* solve_parallel (src/app.py lines 53-100)
\* ------------------------------------------------------------------------

\* Flow constants of the solver in units of 1e-15 m3/s.
QMin == 1000

QStep == 1

MaxShrink == 20

DefaultMaxIter == 100

\* The float of a flow given in units of 1e-15 m3/s.
FromFlow(q) == FNorm(q, -15)

NoResult == [Q1 |-> 0, Q2 |-> 0, hf |-> Zero, it |-> -1]

\* Faulty variant of edge_case that tests no length (C3 depends on the test).
edge_case_without_lengths(qt, d1, d2, l1, l2) ==
    qt <= 0 \/ d1.m <= 0 \/ d2.m <= 0

edge_case(qt, d1, d2, l1, l2) ==
    qt <= 0 \/ d1.m <= 0 \/ d2.m <= 0 \/ l1.m <= 0 \/ l2.m <= 0

\* The nested function f(Q1) of solve_parallel: the residual of the heads.
f(Q1) ==
    FSub(head_loss(FromFlow(Q1), D1, L1), head_loss(FromFlow(QT - Q1), D2, L2))

\* b * 0.9, bounded below by a + 1e-15 (line 74).
\* Faulty variant of shrink without the floor a + 1e-15 (C8 depends on it).
shrink_without_floor(lo, hi) == (hi * 9) \div 10

shrink(lo, hi) == Max(lo + QStep, (hi * 9) \div 10)

midpoint(lo, hi) == (lo + hi) \div 2

sign_change(x, y) == FMul(x, y).m <= 0

\* Faulty variant of converged without the abs (C1 depends on it).
converged_signed(fm, t) == FLt(fm, t)

converged(fm, t) == FLt(FAbs(fm), t)

\* Faulty variant of loop_guard that admits one iteration more (C9 depends
\* on the strict comparison).
loop_guard_inclusive(i, cap) == i <= cap

loop_guard(i, cap) == i < cap

zero_result == [Q1 |-> 0, Q2 |-> 0, hf |-> Zero, it |-> 0]

tiny_result(qt) ==
    [Q1 |-> qt, Q2 |-> 0, hf |-> head_loss(FromFlow(qt), D1, L1), it |-> 0]

fallback_result(qt) ==
    LET Q1 == qt \div 2
    IN  [Q1 |-> Q1, Q2 |-> qt - Q1, hf |-> head_loss(FromFlow(Q1), D1, L1),
         it |-> 0]

\* Faulty variants of final_result: Q2 taken from the lower end of the
\* bracket (C2), Q1 taken from the lower end (C5), it always 0 (C6).
final_result_stale_Q2(lo, hi, i) ==
    [Q1 |-> (lo + hi) \div 2, Q2 |-> QT - lo,
     hf |-> head_loss(FromFlow((lo + hi) \div 2), D1, L1), it |-> i]

final_result_lower_end(lo, hi, i) ==
    [Q1 |-> lo, Q2 |-> QT - lo, hf |-> head_loss(FromFlow(lo), D1, L1),
     it |-> i]

final_result_zero_it(lo, hi, i) ==
    [Q1 |-> (lo + hi) \div 2, Q2 |-> QT - (lo + hi) \div 2,
     hf |-> head_loss(FromFlow((lo + hi) \div 2), D1, L1), it |-> 0]

final_result(lo, hi, i) ==
    LET Q1 == midpoint(lo, hi)
    IN  [Q1 |-> Q1, Q2 |-> QT - Q1, hf |-> head_loss(FromFlow(Q1), D1, L1),
         it |-> i]

\* An uncaught ZeroDivisionError leaves solve_parallel without a result; n
\* evaluations of head_loss and nb loop bodies were started on the way.
Raise(n, nb) ==
    /\ pc' = "raised"
    /\ hl_calls' = hl_calls + n
    /\ bodies' = bodies + nb
    /\ UNCHANGED <<QT, D1, L1, D2, L2, tol, max_iter, a, b, fa, fb, it, k,
                   res, path, conv, req, resp>>

\* The return of dict r by the return statement named p, after n more
\* evaluations of head_loss (the last of them computing r.hf) and nb more
\* loop bodies; brk tells whether the while loop was left by its break.
Return(r, p, n, nb, brk) ==
    IF Raised(r.hf) THEN Raise(n, nb)
    ELSE /\ pc' = "done"
         /\ res' = r
         /\ path' = p
         /\ hl_calls' = hl_calls + n
         /\ bodies' = bodies + nb
         /\ conv' = brk
         /\ UNCHANGED <<QT, D1, L1, D2, L2, tol, max_iter, a, b, fa, fb, it,
                        k, req, resp>>

\* Lines 55-56: the edge cases.
Degenerate ==
    /\ pc = "call"
    /\ edge_case(QT, D1, D2, L1, L2)
    /\ Return(zero_result, "degenerate", 0, 0, FALSE)

\* Lines 58-61: QT too small to split.
TinyQT ==
    /\ pc = "call"
    /\ ~edge_case(QT, D1, D2, L1, L2)
    /\ QT - QMin <= QMin
    /\ Return(tiny_result(QT), "tiny", 1, 0, FALSE)

\* Lines 58-71 and 83 with a = a0, b = b0, fa = fa0 and fb = fb0.
bracket(a0, b0, fa0, fb0) ==
    IF Raised(fa0) \/ Raised(fb0) THEN Raise(4, 0)
    ELSE /\ a' = a0
         /\ b' = b0
         /\ fa' = fa0
         /\ fb' = fb0
         /\ it' = 0
         /\ pc' = IF sign_change(fa0, fb0) THEN "loop" ELSE "search"
         /\ hl_calls' = hl_calls + 4
         /\ UNCHANGED <<QT, D1, L1, D2, L2, tol, max_iter, k, res, path,
                        bodies, conv, req, resp>>

\* Lines 58-71 and 83: the bracket, its residuals and the test for a sign change.
Bracket ==
    /\ pc = "call"
    /\ ~edge_case(QT, D1, D2, L1, L2)
    /\ QT - QMin > QMin
    /\ bracket(QMin, QT - QMin, f(QMin), f(QT - QMin))

\* Lines 74-77 with the new b = nb and fb = nfb.
shrink_to(nb, nfb) ==
    IF Raised(nfb) THEN Raise(2, 0)
    ELSE /\ b' = nb
         /\ fb' = nfb
         /\ k' = k + 1
         /\ pc' = IF sign_change(fa, nfb) THEN "loop" ELSE "search"
         /\ hl_calls' = hl_calls + 2
         /\ UNCHANGED <<QT, D1, L1, D2, L2, tol, max_iter, a, fa, it, res,
                        path, bodies, conv, req, resp>>

\* Lines 73-77: one iteration of the for loop that shrinks b.
Shrink ==
    /\ pc = "search"
    /\ k < MaxShrink
    /\ shrink_to(shrink(a, b), f(shrink(a, b)))

\* Lines 78-81: the else of the for loop, the 50/50 split.
Fallback ==
    /\ pc = "search"
    /\ k >= MaxShrink
    /\ Return(fallback_result(QT), "fallback", 1, 0, FALSE)

\* Faulty variant of narrow_at that keeps the other half (C10 depends on the
\* choice of the half).
narrow_at_other_half(mid, fm) ==
    IF Raised(fm) THEN Raise(2, 1)
    ELSE /\ ~FLt(FAbs(fm), tol)
         /\ IF FMul(fa, fm).m <= 0
            THEN a' = mid /\ fa' = fm /\ UNCHANGED <<b, fb>>
            ELSE b' = mid /\ fb' = fm /\ UNCHANGED <<a, fa>>
         /\ it' = it + 1
         /\ bodies' = bodies + 1
         /\ hl_calls' = hl_calls + 2
         /\ UNCHANGED <<pc, QT, D1, L1, D2, L2, tol, max_iter, k, res, path,
                        conv, req, resp>>

\* Lines 87-95 with the midpoint mid and fm = f(mid), when there is no break.
narrow_at(mid, fm) ==
    IF Raised(fm) THEN Raise(2, 1)
    ELSE /\ ~converged(fm, tol)
         /\ IF sign_change(fa, fm)
            THEN b' = mid /\ fb' = fm /\ UNCHANGED <<a, fa>>
            ELSE a' = mid /\ fa' = fm /\ UNCHANGED <<b, fb>>
         /\ it' = it + 1
         /\ bodies' = bodies + 1
         /\ hl_calls' = hl_calls + 2
         /\ UNCHANGED <<pc, QT, D1, L1, D2, L2, tol, max_iter, k, res, path,
                        conv, req, resp>>

\* Lines 84-95: an iteration of the while loop that does not break.
Narrow ==
    /\ pc = "loop"
    /\ loop_guard(it, max_iter)
    /\ narrow_at(midpoint(a, b), f(midpoint(a, b)))

\* Lines 86-88: the loop breaks at a midpoint whose residual is fm.
breaks(fm) == ~Raised(fm) /\ converged(fm, tol)

\* Lines 84-88 and 97-100: the iteration that breaks, and the return.
Converge ==
    /\ pc = "loop"
    /\ loop_guard(it, max_iter)
    /\ breaks(f(midpoint(a, b)))
    /\ Return(final_result(a, b, it), "bisection", 3, 1, TRUE)

\* Lines 84 and 97-100: the loop ends at the cap, and the return.
Cap ==
    /\ pc = "loop"
    /\ ~loop_guard(it, max_iter)
    /\ Return(final_result(a, b, it), "bisection", 1, 0, FALSE)

\* ------------------------------------------------------------------------
\* api_reynolds (src/app.py lines 107-129)
\* ------------------------------------------------------------------------

\* A field of the JSON body: a number (a float), a text that float() does
\* not parse, or no such key.
Absent == [absent |-> TRUE]

NotANumber == [text |-> "abc"]

NoRequest == [nu |-> Absent, D |-> Absent, Q |-> Absent]

NoResponse == [status |-> 0]

\* float(data.get(key, default))
get(v, default) == IF v = Absent THEN default ELSE v

\* Faulty variant of valid_reynolds that does not test D (C7 depends on it).
valid_reynolds_without_D(nu, D, Q) == nu.m > 0 /\ Q.m # 0

valid_reynolds(nu, D, Q) == nu.m > 0 /\ D.m > 0 /\ Q.m # 0

flow_type(Re) ==
    IF FLt(Re, Fl(2000, 0)) THEN "laminar"
    ELSE IF FLe(Re, Fl(4000, 0)) THEN "transicional"
    ELSE "turbulento"

\* Lines 121-129: the body of the 200 response, or the 500 that Flask
\* answers when the view raises.
reynolds_body(V, Re) ==
    IF Raised(Re) THEN [status |-> 500, error |-> "ZeroDivisionError"]
    ELSE [status |-> 200, V |-> V, Re |-> Re, flow_type |-> flow_type(Re)]

\* Line 123: Re = (V * D) / nu.
reynolds_of(V, D, nu) == reynolds_body(V, FDiv(FMul(V, D), nu))

\* Lines 111-129 for the fields nu, D and Q of the body (the error texts
\* are written without their accents).
reynolds_response(nu, D, Q) ==
    IF NotANumber \in {nu, D, Q}
    THEN [status |-> 400, error |-> "Entrada invalida"]
    ELSE IF ~valid_reynolds(nu, D, Q)
    THEN [status |-> 400,
          error |-> "Valores deben ser mayores que cero y Q distinto de 0"]
    ELSE reynolds_of(FDiv(FMul(Fl(4000, -3), Q), FMul(pi, FMul(D, D))), D, nu)

api_reynolds ==
    /\ pc = "request"
    /\ resp' = reynolds_response(get(req.nu, FDiv(MU_WATER, RHO_WATER)),
                                 get(req.D, Zero), get(req.Q, Zero))
    /\ pc' = "responded"
    /\ UNCHANGED <<solver_vars, req>>

\* ------------------------------------------------------------------------
\* Calls and requests considered
\* ------------------------------------------------------------------------

\* Largest max_iter below the default that a call passes.
MaxIterSmall == 2

\* Largest total flow of a call, in units of 1e-15 m3/s.
MaxFlow == 100000000

\* 0, 1.5e-12, 2.05e-12, 3.001e-12, 4e-12 and MaxFlow * 1e-15 m3/s.
Flows == {0, 1500, 2050, 3001, 4000, MaxFlow}

\* 0, 1e-200, 2e-5, 1e-3 and 0.05 m, and the pair 2.4e36 and 1e45 m, between
\* which the product fa * fb of line 71 is just above the underflow to 0.0.
Diameters == {Zero, Fl(1000, -203), Fl(2000, -8), Fl(1000, -6), Fl(5000, -5),
              Fl(2400, 33), Fl(1000, 42)}

\* 0, 10 and 20 m.
Lengths == {Zero, Fl(1000, -2), Fl(2000, -2)}

\* The default tol = 1e-9.
Tolerances == {Fl(1000, -12)}

MaxIters == (0..MaxIterSmall) \cup {DefaultMaxIter}

\* Fields of a request: nu, D and Q.
Viscosities == {Absent, NotANumber, Zero, Fl(-1000, -9), Fl(1000, -9)}

ApiDiameters == {Absent, NotANumber, Zero, Fl(-5000, -5), Fl(1000, -203),
                 Fl(5000, -5)}

ApiFlows == {Absent, Zero, Fl(-1000, -5), Fl(1000, -8), Fl(1000, -5)}

InitSolve ==
    /\ pc = "call"
    /\ QT \in Flows
    /\ D1 \in Diameters
    /\ L1 \in Lengths
    /\ D2 \in Diameters
    /\ L2 \in Lengths
    /\ tol \in Tolerances
    /\ max_iter \in MaxIters
    /\ a = 0 /\ b = 0 /\ fa = Zero /\ fb = Zero /\ it = 0 /\ k = 0
    /\ res = NoResult
    /\ path = "none"
    /\ hl_calls = 0 /\ bodies = 0 /\ conv = FALSE
    /\ req = NoRequest
    /\ resp = NoResponse

InitRequest ==
    /\ pc = "request"
    /\ req \in [nu : Viscosities, D : ApiDiameters, Q : ApiFlows]
    /\ QT = 0 /\ D1 = Zero /\ L1 = Zero /\ D2 = Zero /\ L2 = Zero
    /\ tol = Fl(1000, -12) /\ max_iter = DefaultMaxIter
    /\ a = 0 /\ b = 0 /\ fa = Zero /\ fb = Zero /\ it = 0 /\ k = 0
    /\ res = NoResult
    /\ path = "none"
    /\ hl_calls = 0 /\ bodies = 0 /\ conv = FALSE
    /\ resp = NoResponse

Init == InitSolve \/ InitRequest

Next ==
    \/ Degenerate
    \/ TinyQT
    \/ Bracket
    \/ Shrink
    \/ Fallback
    \/ Narrow
    \/ Converge
    \/ Cap
    \/ api_reynolds

Spec == Init /\ [][Next]_vars

\* ------------------------------------------------------------------------
\* Claims
\* ------------------------------------------------------------------------

valid_inputs == QT > 0 /\ D1.m > 0 /\ D2.m > 0 /\ L1.m > 0 /\ L2.m > 0

symmetric_pipes == D1 = D2 /\ L1 = L2

\* |head_loss(Q1, D1, L1) - head_loss(Q2, D2, L2)| < tol for the split of r.
heads_equal(r) ==
    /\ ~Raised(head_loss(FromFlow(r.Q2), D2, L2))
    /\ FLt(FAbs(FSub(head_loss(FromFlow(r.Q1), D1, L1),
                     head_loss(FromFlow(r.Q2), D2, L2))), tol)

\* Q1 and Q2 are each within half a flow step (1e-15) of QT / 2.
near_half(r) == Abs(2 * r.Q1 - QT) <= QStep /\ Abs(2 * r.Q2 - QT) <= QStep

\* C1 as stated: every result with it < max_iter splits the flow so that the
\* two head losses differ by less than tol.
C1_EqualHeadLoss ==
    (pc = "done" /\ res.it < max_iter) => heads_equal(res)

\* C1 amended: every result returned from the bisection loop with
\* it < max_iter splits the flow so that the two head losses differ by less
\* than tol.
C1_EqualHeadLossAfterBreak ==
    (pc = "done" /\ path = "bisection" /\ res.it < max_iter) => heads_equal(res)

C1_Witness ==
    pc = "done" /\ path = "bisection" /\ 0 < res.it /\ res.it < max_iter

C3_DegenerateShortCircuit ==
    (/\ pc \in {"search", "loop", "done", "raised"}
     /\ (QT <= 0 \/ D1.m <= 0 \/ D2.m <= 0 \/ L1.m <= 0 \/ L2.m <= 0))
        => /\ pc = "done"
           /\ res = [Q1 |-> 0, Q2 |-> 0, hf |-> Zero, it |-> 0]
           /\ hl_calls = 0 /\ bodies = 0 /\ k = 0
           /\ a = 0 /\ b = 0

C3_Witness ==
    /\ pc = "done" /\ QT = 0
    /\ D1.m > 0 /\ D2.m > 0 /\ L1.m > 0 /\ L2.m > 0
    /\ res = [Q1 |-> 0, Q2 |-> 0, hf |-> Zero, it |-> 0]

\* C4: solve_parallel never raises, a returned dict has the four fields, the
\* search evaluates the residual at most 20 more times and the loop body
\* runs at most max_iter times.
C4_TotalAndBounded ==
    /\ pc # "raised"
    /\ pc = "done" => DOMAIN res = {"Q1", "Q2", "hf", "it"}
    /\ k <= MaxShrink
    /\ bodies <= max_iter

C6_ZeroIterationsMeansFallback ==
    (pc = "done" /\ res.it = 0 /\ res.Q1 > 0 /\ res.Q2 > 0) => path = "fallback"

\* C6 amended: a result with it = 0, Q1 > 0 and Q2 > 0 comes from the 50/50
\* fallback or from a bisection that completed no iteration (its first
\* midpoint was within tol, or max_iter was 0).
C6_ZeroIterationsFallbackOrFirstMidpoint ==
    (pc = "done" /\ res.it = 0 /\ res.Q1 > 0 /\ res.Q2 > 0)
        => \/ path = "fallback" /\ bodies = 0 /\ k = MaxShrink
           \/ /\ path = "bisection"
              /\ res.Q1 = (a + b) \div 2
              /\ \/ bodies = 1 /\ conv
                 \/ bodies = 0 /\ max_iter = 0

C6_Witness ==
    /\ pc = "done" /\ res.it = 0 /\ res.Q1 > 0 /\ res.Q2 > 0
    /\ path = "bisection" /\ conv /\ max_iter > 0

\* The fields of the request after data.get's defaults.
req_nu == get(req.nu, FDiv(MU_WATER, RHO_WATER))

req_D == get(req.D, Zero)

req_Q == get(req.Q, Zero)

numeric_request == NotANumber \notin {req_nu, req_D, req_Q}

\* C7 as stated: a request whose nu, D or Q is <= 0 is answered 400, and V,
\* Re and flow_type are computed only when all three are > 0.
C7_RejectsNonPositive ==
    (pc = "responded" /\ numeric_request)
        => /\ (req_nu.m <= 0 \/ req_D.m <= 0 \/ req_Q.m <= 0) => resp.status = 400
           /\ resp.status = 200 => (req_nu.m > 0 /\ req_D.m > 0 /\ req_Q.m > 0)

\* C7 amended: a request whose nu or D is <= 0 or whose Q is 0 is answered
\* 400, and V, Re and flow_type are computed only when nu > 0, D > 0 and
\* Q # 0 (a negative Q is accepted).
C7_RejectsNonPositiveOrZeroQ ==
    (pc = "responded" /\ numeric_request)
        => /\ (req_nu.m <= 0 \/ req_D.m <= 0 \/ req_Q.m = 0) => resp.status = 400
           /\ resp.status = 200
                => /\ req_nu.m > 0 /\ req_D.m > 0 /\ req_Q.m # 0
                   /\ DOMAIN resp = {"status", "V", "Re", "flow_type"}
                   /\ Sgn(resp.V.m) = Sgn(req_Q.m)
                   /\ resp.flow_type \in {"laminar", "transicional", "turbulento"}

C7_Witness ==
    /\ pc = "responded" /\ numeric_request
    /\ req_nu.m > 0 /\ req_D.m > 0 /\ req_Q.m < 0
    /\ resp.status = 200 /\ resp.flow_type = "laminar"

\* C8: without an initial sign change b is replaced by max(a + 1e-15, 0.9 b)
\* and g(b) re-evaluated until the first sign change, after which the
\* bisection starts on that bracket; after 20 shrinks without one the call
\* returns Q1 = QT / 2, Q2 = QT - Q1, hf = head_loss(Q1, D1, L1), it = 0 and
\* the loop is not entered.  With an initial sign change b is left as set.
C8_SignChangeSearch ==
    [][/\ (pc = "call" /\ pc' = "loop")
            => /\ a' = QMin /\ b' = QT - QMin /\ k' = 0
               /\ FMul(fa', fb').m <= 0
       /\ (pc = "call" /\ pc' = "search")
            => /\ a' = QMin /\ b' = QT - QMin /\ k' = 0
               /\ FMul(fa', fb').m > 0
       /\ pc = "search" => (k <= MaxShrink /\ FMul(fa, fb).m > 0 /\ bodies = 0)
       /\ (pc = "search" /\ k < MaxShrink)
            => \/ pc' = "raised"
               \/ /\ b' = Max(a + 1, (b * 9) \div 10)
                  /\ fb' = f(b')
                  /\ a' = a /\ fa' = fa /\ k' = k + 1
                  /\ pc' = IF FMul(fa, fb').m <= 0 THEN "loop" ELSE "search"
       /\ (pc = "search" /\ k >= MaxShrink)
            => \/ pc' = "raised"
               \/ /\ pc' = "done"
                  /\ res' = [Q1 |-> QT \div 2, Q2 |-> QT - QT \div 2,
                             hf |-> head_loss(FromFlow(QT \div 2), D1, L1),
                             it |-> 0]
                  /\ bodies' = 0
      ]_vars

C8_Witness ==
    /\ pc = "loop" /\ it = 0
    /\ 0 < k /\ k < MaxShrink
    /\ a = QMin /\ b < QT - QMin
    /\ FMul(fa, fb).m <= 0

\* C9: a result of the bisection loop has it = the number of iterations
\* completed, 0 <= it <= max_iter, and it = max_iter exactly when the loop
\* ended at the cap with no midpoint within tol.
C9_IterationCount ==
    (pc = "done" /\ path = "bisection")
        => /\ res.it = bodies - (IF conv THEN 1 ELSE 0)
           /\ 0 <= res.it /\ res.it <= max_iter
           /\ res.it = max_iter <=> ~conv

C9_Witness ==
    /\ pc = "done" /\ path = "bisection"
    /\ 0 < max_iter /\ max_iter < DefaultMaxIter
    /\ res.it = max_iter /\ bodies = max_iter /\ ~conv

====
